---- MODULE Spec2Model ----
(***************************************************************************)
(* A model of res::ok<T>, res::err<E>, res::result<T, E> and               *)
(* res::result<void, E> (the single header of result-cpp).                 *)
(*                                                                         *)
(* T and E are modelled as small integer ranges.  An object is a record of *)
(* its data members.  A functor is a function over argument tuples: a      *)
(* unary functor F(T x) -> U has domain {<<v>>}, a nullary functor         *)
(* F() -> U has domain {<<>>}.  Invoking a functor is a side effect, which *)
(* the model records in a call log.                                        *)
(***************************************************************************)
EXTENDS Integers, Sequences, FiniteSets, TLC

VARIABLES pc, form, marker, r, built, ret, seen, chain, fs, log

vars == <<pc, form, marker, r, built, ret, seen, chain, fs, log>>

\* Bounds of the model.
MaxVal == 1
MaxErr == 1
MaxChain == 2

\* What value-initialisation (result<T, E>()) leaves in the payload slots.
DefaultT == 0
DefaultE == 0

Values == 0..MaxVal
Errors == 0..MaxErr

\* std::monostate, the payload of the empty marker ok<>().
monostate == "monostate"

UnaryArgs == {<<v>> : v \in Values}
NullaryArgs == {<<>>}
Unary == [UnaryArgs -> Values]
Nullary == [NullaryArgs -> Values]

\* What a call gives back: a value, or an exception.
Returned(v) == [kind |-> "return", val |-> v]
Thrown(msg) == [kind |-> "throw", type |-> "std::logic_error", what |-> msg]

\* One entry of the call log: functor fn was invoked with arguments args.
Call(fn, args) == [fn |-> fn, args |-> args]

----------------------------------------------------------------------------
\* result<T, E>: private members.

result_default == [successful_ |-> FALSE, value_ |-> DefaultT, error_ |-> DefaultE]

make_successful_keeps_flag(res, value) == [res EXCEPT !.value_ = value]

make_successful(res, value) == [res EXCEPT !.successful_ = TRUE, !.value_ = value]

make_unsuccessful_drops_error(res, error) == [res EXCEPT !.successful_ = FALSE]

make_unsuccessful(res, error) == [res EXCEPT !.successful_ = FALSE, !.error_ = error]

\* result<void, E>: private members.

void_result_default == [successful_ |-> FALSE, error_ |-> DefaultE]

void_make_successful_noop(res) == res

void_make_successful(res) == [res EXCEPT !.successful_ = TRUE]

void_make_unsuccessful(res, error) == [res EXCEPT !.successful_ = FALSE, !.error_ = error]

----------------------------------------------------------------------------
\* The markers and their conversions.

ok(value) == [value_ |-> value]

ok_empty == [value_ |-> monostate]

err(error) == [error_ |-> error]

ok_to_result(o) == make_successful(result_default, o.value_)

ok_to_void_result(o) == void_make_successful(void_result_default)

err_to_result_default_error(e) == make_unsuccessful(result_default, DefaultE)

err_to_result(e) == make_unsuccessful(result_default, e.error_)

err_to_void_result(e) == void_make_unsuccessful(void_result_default, e.error_)

----------------------------------------------------------------------------
\* result<T, E>: public interface.

is_ok(res) == res.successful_

operator_bool(res) == is_ok(res)

operator_not_same_as_bool(res) == is_ok(res)

operator_not(res) == ~is_ok(res)

value_unchecked(res) == Returned(res.value_)

value(res) ==
  IF ~is_ok(res) THEN Thrown("value() called on result with error")
  ELSE Returned(res.value_)

value_or_reads_slot(res, default_value) == Returned(res.value_)

value_or(res, default_value) ==
  IF is_ok(res) THEN Returned(res.value_)
  ELSE Returned(default_value)

error(res) ==
  IF is_ok(res) THEN Thrown("error() called on result with value")
  ELSE Returned(res.error_)

\* map gives back the new outcome and the calls it made.
map_invokes_twice(res, functor) ==
  IF is_ok(res)
  THEN [res |-> ok_to_result(ok(functor[<<res.value_>>])),
        calls |-> <<Call(functor, <<res.value_>>), Call(functor, <<res.value_>>)>>]
  ELSE [res |-> err_to_result(err(res.error_)), calls |-> <<>>]

map_invokes_first(res, functor) ==
  IF is_ok(res)
  THEN [res |-> ok_to_result(ok(functor[<<res.value_>>])),
        calls |-> <<Call(functor, <<res.value_>>)>>]
  ELSE [res |-> err_to_result(err(res.error_)),
        calls |-> <<Call(functor, <<res.value_>>)>>]

map(res, functor) ==
  IF is_ok(res)
  THEN [res |-> ok_to_result(ok(functor[<<res.value_>>])),
        calls |-> <<Call(functor, <<res.value_>>)>>]
  ELSE [res |-> err_to_result(err(res.error_)), calls |-> <<>>]

----------------------------------------------------------------------------
\* result<void, E>: public interface.

void_is_ok(res) == res.successful_

void_operator_bool(res) == void_is_ok(res)

void_operator_not(res) == ~void_is_ok(res)

void_error(res) ==
  IF void_is_ok(res) THEN Thrown("error() called on result with value")
  ELSE Returned(res.error_)

void_map(res, functor) ==
  IF void_is_ok(res)
  THEN [res |-> ok_to_result(ok(functor[<<>>])),
        calls |-> <<Call(functor, <<>>)>>]
  ELSE [res |-> err_to_result(err(res.error_)), calls |-> <<>>]

----------------------------------------------------------------------------
\* The state machine: one outcome is built from a marker, then used.

NoObject == [none |-> TRUE]
NoReturn == [op |-> "none", args |-> <<>>, res |-> Returned(FALSE)]
NothingSeen == [o \in {"is_ok", "value", "error"} |-> {}]

Init ==
  /\ pc = "start"
  /\ form = "none"
  /\ marker = NoObject
  /\ r = NoObject
  /\ built = NoObject
  /\ ret = NoReturn
  /\ seen = NothingSeen
  /\ chain = <<>>
  /\ fs = <<>>
  /\ log = <<>>

Construct(kind, type, held, target, res) ==
  /\ pc' = "built"
  /\ form' = target
  /\ marker' = [kind |-> kind, type |-> type, held |-> held]
  /\ r' = res
  /\ built' = res
  /\ UNCHANGED <<ret, seen, chain, fs, log>>

OkToResult ==
  /\ pc = "start"
  /\ \E v \in Values : Construct("ok", "T", ok(v), "general", ok_to_result(ok(v)))

OkToVoidResult ==
  /\ pc = "start"
  /\ \E v \in Values : Construct("ok", "T", ok(v), "void", ok_to_void_result(ok(v)))

OkEmptyToVoidResult ==
  /\ pc = "start"
  /\ Construct("ok", "std::monostate", ok_empty, "void", ok_to_void_result(ok_empty))

ErrToResult ==
  /\ pc = "start"
  /\ \E e \in Errors : Construct("err", "E", err(e), "general", err_to_result(err(e)))

ErrToVoidResult ==
  /\ pc = "start"
  /\ \E e \in Errors : Construct("err", "E", err(e), "void", err_to_void_result(err(e)))

\* A call of a const member: the receiver is left as it is, the result is returned.
Observe(op, args, res) ==
  /\ ret' = [op |-> op, args |-> args, res |-> res]
  /\ seen' = IF op \in DOMAIN seen THEN [seen EXCEPT ![op] = @ \cup {res}] ELSE seen
  /\ UNCHANGED <<pc, form, marker, r, built, chain, fs, log>>

IsOk == pc = "built" /\ form = "general" /\ Observe("is_ok", <<>>, Returned(is_ok(r)))

OperatorBool == pc = "built" /\ form = "general" /\ Observe("operator bool", <<>>, Returned(operator_bool(r)))

OperatorNot == pc = "built" /\ form = "general" /\ Observe("operator!", <<>>, Returned(operator_not(r)))

Value_moves_out ==
  /\ pc = "built" /\ form = "general"
  /\ ret' = [op |-> "value", args |-> <<>>, res |-> value(r)]
  /\ seen' = [seen EXCEPT !["value"] = @ \cup {value(r)}]
  /\ r' = [r EXCEPT !.value_ = DefaultT]
  /\ UNCHANGED <<pc, form, marker, built, chain, fs, log>>

Value == pc = "built" /\ form = "general" /\ Observe("value", <<>>, value(r))

ValueOr == pc = "built" /\ form = "general" /\ \E d \in Values : Observe("value_or", <<d>>, value_or(r, d))

Error == pc = "built" /\ form = "general" /\ Observe("error", <<>>, error(r))

VoidIsOk == pc = "built" /\ form = "void" /\ Observe("is_ok", <<>>, Returned(void_is_ok(r)))

VoidOperatorBool == pc = "built" /\ form = "void" /\ Observe("operator bool", <<>>, Returned(void_operator_bool(r)))

VoidOperatorNot == pc = "built" /\ form = "void" /\ Observe("operator!", <<>>, Returned(void_operator_not(r)))

VoidError == pc = "built" /\ form = "void" /\ Observe("error", <<>>, void_error(r))

\* r.map(functor): a new outcome; the chain of maps starts again from r.
Mapped(functor, m) ==
  /\ chain' = <<m.res>>
  /\ fs' = <<functor>>
  /\ log' = m.calls
  /\ ret' = [op |-> "map", args |-> <<functor>>, res |-> Returned(m.res)]
  /\ UNCHANGED <<pc, form, marker, r, built, seen>>

Map == pc = "built" /\ form = "general" /\ \E f \in Unary : Mapped(f, map(r, f))

VoidMap == pc = "built" /\ form = "void" /\ \E f \in Nullary : Mapped(f, void_map(r, f))

\* r.map(f)....map(g): map on the outcome the previous map returned.
ChainMap ==
  /\ pc = "built"
  /\ Len(chain) >= 1
  /\ Len(chain) < MaxChain
  /\ \E g \in Unary :
       LET m == map(chain[Len(chain)], g) IN
       /\ chain' = Append(chain, m.res)
       /\ fs' = Append(fs, g)
       /\ log' = log \o m.calls
       /\ ret' = [op |-> "map", args |-> <<g>>, res |-> Returned(m.res)]
  /\ UNCHANGED <<pc, form, marker, r, built, seen>>

Conversions ==
  \/ OkToResult
  \/ OkToVoidResult
  \/ OkEmptyToVoidResult
  \/ ErrToResult
  \/ ErrToVoidResult

Next ==
  \/ Conversions
  \/ IsOk
  \/ OperatorBool
  \/ OperatorNot
  \/ Value
  \/ ValueOr
  \/ Error
  \/ VoidIsOk
  \/ VoidOperatorBool
  \/ VoidOperatorNot
  \/ VoidError
  \/ Map
  \/ VoidMap

Spec == Init /\ [][Next]_vars

NextChain ==
  \/ Conversions
  \/ Map
  \/ VoidMap
  \/ ChainMap

SpecChain == Init /\ [][NextChain]_vars

----------------------------------------------------------------------------
\* The properties.

Built == pc = "built"
FromOk == Built /\ marker.kind = "ok"
FromErr == Built /\ marker.kind = "err"
LogicError(res) == res.kind = "throw" /\ res.type = "std::logic_error"

\* C1: ok<T>(v) converted to result<T, E> gives an outcome whose is_ok() is
\* true and whose value() returns v without throwing; every is_ok() and
\* value() call made on it returned exactly that.
C1_OkToResultHoldsValue ==
  (FromOk /\ form = "general") =>
    /\ is_ok(r) = TRUE
    /\ value(r) = Returned(marker.held.value_)
    /\ (ret.op = "is_ok" => ret.res = Returned(TRUE))
    /\ (ret.op = "value" => ret.res = Returned(marker.held.value_))

C1_Witness ==
  /\ FromOk /\ form = "general"
  /\ marker.held.value_ # DefaultT
  /\ ret.op = "value"
  /\ ret.res = Returned(marker.held.value_)

\* C2: err<E>(e) converted to result<T, E> or to result<void, E> gives an
\* outcome whose is_ok() is false and whose error() returns e without throwing.
C2_ErrConversionHoldsError ==
  /\ (FromErr /\ form = "general") =>
       /\ is_ok(r) = FALSE
       /\ error(r) = Returned(marker.held.error_)
  /\ (FromErr /\ form = "void") =>
       /\ void_is_ok(r) = FALSE
       /\ void_error(r) = Returned(marker.held.error_)
  /\ FromErr =>
       /\ (ret.op = "is_ok" => ret.res = Returned(FALSE))
       /\ (ret.op = "error" => ret.res = Returned(marker.held.error_))

C2_Witness ==
  /\ FromErr /\ form = "void"
  /\ marker.held.error_ # DefaultE
  /\ ret.op = "error"
  /\ ret.res = Returned(marker.held.error_)

\* C3: value() on a failure outcome and error() on a success outcome (general
\* and void form) throw std::logic_error and return no payload; on the general
\* form exactly one of value() and error() returns, value() iff is_ok().
C3_WrongAccessorThrows ==
  /\ (Built /\ form = "general") =>
       /\ (~is_ok(r) => LogicError(value(r)))
       /\ (is_ok(r) => LogicError(error(r)))
       /\ (value(r).kind = "return") # (error(r).kind = "return")
       /\ (value(r).kind = "return") = is_ok(r)
       /\ ((ret.op = "value" /\ ~is_ok(r)) => LogicError(ret.res))
       /\ ((ret.op = "error" /\ is_ok(r)) => LogicError(ret.res))
  /\ (Built /\ form = "void") =>
       /\ (void_is_ok(r) => LogicError(void_error(r)))
       /\ ((ret.op = "error" /\ void_is_ok(r)) => LogicError(ret.res))

C3_Witness ==
  /\ FromErr /\ form = "general"
  /\ ret.op = "value"
  /\ LogicError(ret.res)

\* C4: value_or(d) never throws; on a success outcome it returns the held
\* value whatever d is, on a failure outcome it returns d (never the unused
\* value slot).
C4_ValueOr ==
  (Built /\ form = "general") =>
    /\ \A d \in Values :
         value_or(r, d) = Returned(IF is_ok(r) THEN marker.held.value_ ELSE d)
    /\ (ret.op = "value_or" =>
          ret.res = Returned(IF is_ok(r) THEN marker.held.value_ ELSE ret.args[1]))

C4_Witness ==
  /\ FromErr /\ form = "general"
  /\ ret.op = "value_or"
  /\ ret.args[1] # r.value_
  /\ ret.res = Returned(ret.args[1])

\* C5: map(f) on a success outcome invokes f exactly once, with the held value
\* (general form) or with no argument (void form), and returns a success
\* outcome holding what f returned.
C5_MapOnSuccess ==
  (FromOk /\ Len(fs) = 1) =>
    LET f == fs[1]
        a == IF form = "general" THEN <<marker.held.value_>> ELSE <<>>
    IN /\ is_ok(chain[1]) = TRUE
       /\ value(chain[1]) = Returned(f[a])
       /\ log = <<Call(f, a)>>

C5_Witness ==
  /\ FromOk /\ form = "general" /\ Len(fs) = 1
  /\ fs[1][<<marker.held.value_>>] # marker.held.value_
  /\ value(chain[1]) = Returned(fs[1][<<marker.held.value_>>])

\* C6: map(f) on a failure outcome holding e (general or void form) never
\* invokes f and returns a failure outcome whose error() is e.
C6_MapOnFailure ==
  (FromErr /\ Len(fs) = 1) =>
    /\ Len(log) = 0
    /\ is_ok(chain[1]) = FALSE
    /\ error(chain[1]) = Returned(marker.held.error_)

C6_Witness ==
  /\ FromErr /\ Len(fs) = 1
  /\ marker.held.error_ # DefaultE
  /\ error(chain[1]) = Returned(marker.held.error_)

\* C7: a success marker (ok<>() or ok<T>(v)) converted to result<void, E>
\* gives an outcome whose is_ok() is true, which has no value payload, and
\* whose error() throws std::logic_error.
C7_OkToVoidResult ==
  (FromOk /\ form = "void") =>
    /\ void_is_ok(r) = TRUE
    /\ DOMAIN r = {"successful_", "error_"}
    /\ LogicError(void_error(r))
    /\ (ret.op = "is_ok" => ret.res = Returned(TRUE))
    /\ (ret.op = "error" => LogicError(ret.res))

C7_Witness ==
  /\ FromOk /\ form = "void"
  /\ marker.type = "std::monostate"
  /\ ret.op = "error"
  /\ LogicError(ret.res)

\* C8: an outcome never changes after its construction, whatever is called on
\* it, and every call of is_ok(), value() or error() on it gave the same result
\* (or threw the same way).
C8_Immutable ==
  Built =>
    /\ r = built
    /\ \A o \in DOMAIN seen : Cardinality(seen[o]) <= 1

C8_Witness ==
  /\ FromOk /\ form = "general"
  /\ marker.held.value_ # DefaultT
  /\ Len(fs) = 1
  /\ seen["is_ok"] # {} /\ seen["value"] # {} /\ seen["error"] # {}
  /\ ret.op = "value_or"
  /\ r = built

compose(g, f) == [a \in DOMAIN f |-> g[<<f[a]>>]]

RECURSIVE compose_all(_)
compose_all(functors) ==
  IF Len(functors) = 1 THEN functors[1]
  ELSE compose(functors[Len(functors)], compose_all(SubSeq(functors, 1, Len(functors) - 1)))

\* The calls a chain of maps makes on a success outcome: each functor once,
\* in order, each with what the one before returned.
RECURSIVE chain_calls(_, _)
chain_calls(functors, a) ==
  IF functors = <<>> THEN <<>>
  ELSE <<Call(Head(functors), a)>> \o chain_calls(Tail(functors), <<Head(functors)[a]>>)

SameOutcome(x, y) ==
  /\ is_ok(x) = is_ok(y)
  /\ IF is_ok(x) THEN value(x) = value(y) ELSE error(x) = error(y)

\* C10: r.map(f).map(g) is the outcome r.map(x -> g(f(x))); on a success
\* holding v it is a success holding g(f(v)), f invoked once and then g once;
\* on a failure holding e it is, at any length, a failure whose error() is e,
\* and no functor is invoked.
C10_ChainedMaps ==
  (Built /\ Len(fs) >= 1) =>
    LET out == chain[Len(chain)]
        gf == compose_all(fs)
        a == IF form = "general" THEN <<marker.held.value_>> ELSE <<>>
        whole == IF form = "general" THEN map(r, gf) ELSE void_map(r, gf)
    IN /\ Len(chain) = Len(fs)
       /\ SameOutcome(out, whole.res)
       /\ marker.kind = "ok" =>
            /\ is_ok(out) = TRUE
            /\ value(out) = Returned(gf[a])
            /\ log = chain_calls(fs, a)
       /\ marker.kind = "err" =>
            /\ is_ok(out) = FALSE
            /\ error(out) = Returned(marker.held.error_)
            /\ log = <<>>

C10_Witness ==
  /\ FromOk /\ form = "general"
  /\ Len(fs) = 2
  /\ fs[1] # fs[2]
  /\ fs[1][<<marker.held.value_>>] # marker.held.value_
  /\ value(chain[2]) = Returned(fs[2][<<fs[1][<<marker.held.value_>>]>>])
  /\ Len(log) = 2

C10_WitnessFailure ==
  /\ FromErr /\ Len(fs) = 2
  /\ marker.held.error_ # DefaultE
  /\ error(chain[2]) = Returned(marker.held.error_)

====
